---- MODULE Spec2Model ----
(***************************************************************************)
(* Model of src/src/pages/Dashboard.jsx: the Dashboard component's state   *)
(* (webhookData, loading, timeRange, selectedRepo, currentPage), the       *)
(* Firestore subscription callbacks, the select / button handlers, and the *)
(* render body (processData, the Today summary, rankings, pagination).     *)
(*                                                                         *)
(* JavaScript strings are sequences of one-character strings, so that      *)
(* String.prototype.slice and string truthiness are computed, not assumed. *)
(* Instants are integer clock ticks, DayTicks ticks per local calendar     *)
(* day; Date(0) is tick 0.  A JavaScript object used as a dictionary is a  *)
(* sequence of <<key, value>> pairs in insertion order (the order that     *)
(* Object.keys / Object.entries give for non-index keys).                  *)
(***************************************************************************)
EXTENDS Integers, Sequences, FiniteSets, TLC

VARIABLES
    webhookData,   \* useState([])      line 32
    loading,       \* useState(true)    line 33
    timeRange,     \* useState('7d')    line 34
    selectedRepo,  \* useState('all')   line 35
    currentPage,   \* useState(1)       line 36
    view,          \* what the last render of the component returned
    now,           \* the wall clock (what new Date() reads)
    listening,     \* the onSnapshot listener is attached and has not failed
    delivered      \* the query snapshot most recently handed to the listener

vars == <<webhookData, loading, timeRange, selectedRepo, currentPage, view,
          now, listening, delivered>>

----------------------------------------------------------------------------
(* Bounds of the model *)

\* ticks of the clock per calendar day
DayTicks == 2
\* the clock reading at mount
Now0 == 101
\* how many ticks the clock advances during a run
MaxTicks == 1
\* number of documents the github_webhooks collection can hold
MaxDocs == 12

rowsPerPage == 10

----------------------------------------------------------------------------
(* JavaScript strings and optional fields *)

Unknown == <<"U","n","k","n","o","w","n">>
AllRepos == <<"a","l","l">>

\* an own property that may be missing: has = FALSE is undefined
AbsentStr == [has |-> FALSE, val |-> <<>>]
SomeStr(s) == [has |-> TRUE, val |-> s]
AbsentObj == [has |-> FALSE, val |-> AbsentStr]
SomeObj(f) == [has |-> TRUE, val |-> f]

\* ToBoolean of a string-or-undefined: undefined and '' are falsy
Truthy(o) == o.has /\ o.val # <<>>

\* a || b on string-or-undefined operands
OrElse(o, p) == IF Truthy(o) THEN o ELSE p

AbsentPR == [has |-> FALSE, val |-> AbsentObj]
SomePR(user) == [has |-> TRUE, val |-> user]

\* obj?.field for an optional object whose one field is an optional string
OptField(obj) == IF obj.has THEN obj.val ELSE AbsentStr

\* item.pull_request?.user?.login
OptUserLogin(pr) == IF pr.has THEN OptField(pr.val) ELSE AbsentStr

\* String.prototype.slice(n), 0 <= n
StrSlice(s, n) == IF Len(s) <= n THEN <<>> ELSE SubSeq(s, n + 1, Len(s))

Min(a, b) == IF a < b THEN a ELSE b
Max(a, b) == IF a > b THEN a ELSE b

\* Array.prototype.slice(start, end) with its relative-index clamping
ArraySlice(a, start, end) ==
    LET len == Len(a)
        k == IF start < 0 THEN Max(len + start, 0) ELSE Min(start, len)
        final == IF end < 0 THEN Max(len + end, 0) ELSE Min(end, len)
    IN  IF final <= k THEN <<>> ELSE SubSeq(a, k + 1, final)

\* Math.ceil(n / d) for integers n >= 0, d > 0
CeilDiv(n, d) == (n + d - 1) \div d

----------------------------------------------------------------------------
(* Dates *)

\* new Date(receivedAt): the instant a stored timestamp denotes
DateParse(r) == r.date * DayTicks + r.time

\* the stored form of an instant
Timestamp(t) == [date |-> t \div DayTicks, time |-> t % DayTicks]

\* Date.prototype.setHours(0,0,0,0): local midnight of the same day
setHours0(t) == t - (t % DayTicks)

\* Date.prototype.toLocaleDateString(): the label of the calendar day
toLocaleDateString(t) == t \div DayTicks

\* Date.prototype.setDate(getDate() + n): same time of day, n days later
addDays(t, n) == t + n * DayTicks

----------------------------------------------------------------------------
(* The github_webhooks collection: document i of the feed, newest first *)

TeamASvc == <<"t","e","a","m","A","-","s","v","c">>
TeamBApi == <<"t","e","a","m","B","-","a","p","i">>
Tool == <<"t","o","o","l">>
Push == <<"p","u","s","h">>
Fork == <<"f","o","r","k">>
Alice == <<"a","l","i","c","e">>
Bob == <<"b","o","b">>
Carol == <<"c","a","r","o","l">>
Dave == <<"d","a","v","e">>
Erin == <<"e","r","i","n">>
Frank == <<"f","r","a","n","k">>
Constructor == <<"c","o","n","s","t","r","u","c","t","o","r">>

\* receivedAt of document i: documents 1 and 2 lie one day after the clock reading
\* at mount, the later ones ever further in the past
DocReceivedAt(i) == Now0 + DayTicks - ((i - 1) * (i - 1) * 2) \div 3

\* repository of document i; the oldest document has a repository without a name
DocRepository(i) ==
    IF i = MaxDocs THEN SomeObj(AbsentStr)
    ELSE CASE i % 4 = 0 -> SomeObj(SomeStr(TeamASvc))
           [] i % 4 = 1 -> SomeObj(SomeStr(Tool))
           [] i % 4 = 2 -> AbsentObj
           [] OTHER     -> SomeObj(SomeStr(TeamBApi))

DocGithubEvent(i) ==
    CASE i % 3 = 0 -> SomeStr(Push)
      [] i % 3 = 1 -> SomeStr(Fork)
      [] OTHER     -> AbsentStr

DocActor(i) ==
    CASE i % 8 = 0 -> [sender |-> SomeObj(SomeStr(Alice)), pusher |-> AbsentObj,
                       pull_request |-> AbsentPR]
      [] i % 8 = 1 -> [sender |-> SomeObj(SomeStr(Bob)), pusher |-> AbsentObj,
                       pull_request |-> AbsentPR]
      [] i % 8 = 2 -> [sender |-> AbsentObj, pusher |-> SomeObj(SomeStr(Carol)),
                       pull_request |-> AbsentPR]
      [] i % 8 = 3 -> [sender |-> AbsentObj, pusher |-> AbsentObj,
                       pull_request |-> SomePR(SomeObj(SomeStr(Dave)))]
      [] i % 8 = 4 -> [sender |-> AbsentObj, pusher |-> AbsentObj,
                       pull_request |-> SomePR(AbsentObj)]
      [] i % 8 = 5 -> [sender |-> SomeObj(SomeStr(<<>>)), pusher |-> SomeObj(SomeStr(Erin)),
                       pull_request |-> AbsentPR]
      [] i % 8 = 6 -> [sender |-> SomeObj(SomeStr(Frank)), pusher |-> SomeObj(SomeStr(Carol)),
                       pull_request |-> AbsentPR]
      [] OTHER     -> [sender |-> SomeObj(SomeStr(Constructor)), pusher |-> AbsentObj,
                       pull_request |-> AbsentPR]

\* a query document: doc.id and doc.data()
QueryDoc(i) ==
    [id |-> i,
     data |-> [receivedAt |-> Timestamp(DocReceivedAt(i)),
               githubEvent |-> DocGithubEvent(i),
               repository |-> DocRepository(i),
               sender |-> DocActor(i).sender,
               pusher |-> DocActor(i).pusher,
               pull_request |-> DocActor(i).pull_request]]

\* the collection ordered by receivedAt descending (line 41)
Feed == [i \in 1..MaxDocs |-> QueryDoc(i)]

\* the query snapshots the listener can be handed: the newest hi documents of
\* the feed, with or without the very newest one
Snapshots == {SubSeq(Feed, lo, hi) : lo \in 1..2, hi \in 0..MaxDocs}

----------------------------------------------------------------------------
(* onSnapshot success callback, lines 44-50 *)

\* { id: doc.id, ...doc.data() }
ToItem(doc) ==
    [id |-> doc.id,
     receivedAt |-> doc.data.receivedAt,
     githubEvent |-> doc.data.githubEvent,
     repository |-> doc.data.repository,
     sender |-> doc.data.sender,
     pusher |-> doc.data.pusher,
     pull_request |-> doc.data.pull_request]

\* SnapshotData pushing onto the previous array instead of a fresh one
SnapshotData_Merge(snapshot) ==
    webhookData \o [k \in 1..Len(snapshot) |-> ToItem(snapshot[k])]

\* snapshot.forEach(doc => data.push(...))
SnapshotData(snapshot) == [k \in 1..Len(snapshot) |-> ToItem(snapshot[k])]

----------------------------------------------------------------------------
(* Objects used as dictionaries *)

\* position of own key k in obj, 0 when obj has no such key
DictIndex(obj, k) ==
    IF \E j \in 1..Len(obj) : obj[j][1] = k
    THEN CHOOSE j \in 1..Len(obj) : obj[j][1] = k
    ELSE 0

\* obj[k] || 0
DictGet(obj, k) == IF DictIndex(obj, k) = 0 THEN 0 ELSE obj[DictIndex(obj, k)][2]

\* obj[k] = (obj[k] || 0) + 1 for a key that names no inherited property
DictIncr(obj, k) ==
    IF DictIndex(obj, k) = 0
    THEN Append(obj, <<k, 1>>)
    ELSE [obj EXCEPT ![DictIndex(obj, k)] = <<k, @[2] + 1>>]

\* Property names that every object literal {} inherits from Object.prototype
\* and that a label can spell; their inherited values are functions.
InheritedKeys ==
    {Constructor,
     <<"t","o","S","t","r","i","n","g">>,
     <<"v","a","l","u","e","O","f">>}

\* A property value v >= 0 is the Number v.  A value v < 0 is the String made of
\* the source text of an inherited function followed by -v characters '1'.
IsNumber(v) == v >= 0

\* v + 1 for a stored value v: a Number is incremented, a String gets '1' appended
PlusOne(v) == IF IsNumber(v) THEN v + 1 ELSE v - 1

\* f + 1 for an inherited function f: its source text followed by one '1'
FunctionPlusOne == 0 - 1

\* obj[k] = (obj[k] || 0) + 1 for a label k: obj[k] reads the own property, else
\* the inherited one, else undefined; own values and functions are truthy
LabelIncr(obj, k) ==
    IF DictIndex(obj, k) # 0
    THEN [obj EXCEPT ![DictIndex(obj, k)] = <<k, PlusOne(@[2])>>]
    ELSE IF k \in InheritedKeys
         THEN Append(obj, <<k, FunctionPlusOne>>)
         ELSE Append(obj, <<k, 1>>)

\* keys.forEach(k => { obj[k] = (obj[k] || 0) + 1 }) starting from obj
RECURSIVE CountInto(_, _)
CountInto(keys, obj) ==
    IF keys = <<>> THEN obj ELSE CountInto(Tail(keys), LabelIncr(obj, Head(keys)))

RECURSIVE SumValues(_)
SumValues(obj) == IF obj = <<>> THEN 0 ELSE Head(obj)[2] + SumValues(Tail(obj))

Keys(obj) == [j \in 1..Len(obj) |-> obj[j][1]]

\* the comparator (a, b) => b[1] - a[1]; with an operand that is not a Number
\* the difference is NaN, which sort treats as 0
CompareDesc(a, b) == IF IsNumber(a[2]) /\ IsNumber(b[2]) THEN b[2] - a[2] ELSE 0

\* one step of a stable insertion sort: e goes right after the last element that
\* the comparator does not order after it.  (With a count that is not a Number
\* the comparator is inconsistent and the order is the engine's choice; nothing
\* below depends on the order in that case.)
InsertDesc(sorted, e) ==
    LET notAfter == {j \in 1..Len(sorted) : CompareDesc(sorted[j], e) <= 0}
        n == IF notAfter = {} THEN 0
             ELSE CHOOSE j \in notAfter : \A i \in notAfter : i <= j
    IN  SubSeq(sorted, 1, n) \o <<e>> \o SubSeq(sorted, n + 1, Len(sorted))

RECURSIVE SortDescInto(_, _)
SortDescInto(entries, sorted) ==
    IF entries = <<>> THEN sorted
    ELSE SortDescInto(Tail(entries), InsertDesc(sorted, Head(entries)))

SortDesc(entries) == SortDescInto(entries, <<>>)

\* [...new Set(values)]: first occurrences, in order
RECURSIVE Dedupe(_, _)
Dedupe(values, seen) ==
    IF values = <<>> THEN seen
    ELSE Dedupe(Tail(values),
                IF \E j \in 1..Len(seen) : seen[j] = Head(values)
                THEN seen ELSE Append(seen, Head(values)))

----------------------------------------------------------------------------
(* processData, lines 71-166 *)

\* item.repository?.name
RepoNameOf(item) == OptField(item.repository)

\* item.repository?.name || 'Unknown'
RepoLabel(item) == OrElse(RepoNameOf(item), SomeStr(Unknown)).val

\* line 118: repoName.slice(5)
TeamName(item) == StrSlice(RepoLabel(item), 5)

\* item.githubEvent || 'Unknown'
EventLabel(item) == OrElse(item.githubEvent, SomeStr(Unknown)).val

\* item.sender?.login || item.pusher?.name || item.pull_request?.user?.login || 'Unknown'
UserLabel(item) ==
    OrElse(OptField(item.sender),
           OrElse(OptField(item.pusher),
                  OrElse(OptUserLogin(item.pull_request), SomeStr(Unknown)))).val

\* lines 73-75
RepoFilter(data, repo) ==
    IF repo = AllRepos THEN data
    ELSE LET Keep(item) == RepoNameOf(item).has /\ RepoNameOf(item).val = repo
         IN  SelectSeq(data, Keep)

\* lines 78-93
CutoffDate(range, clock) ==
    CASE range = "24h" -> addDays(clock, -1)
      [] range = "7d"  -> addDays(clock, -7)
      [] range = "30d" -> addDays(clock, -30)
      [] OTHER         -> 0

\* lines 95-98
TimeFilter(data, range, clock) ==
    LET Keep(item) == DateParse(item.receivedAt) >= CutoffDate(range, clock)
    IN  SelectSeq(data, Keep)

\* null for minDate / maxDate
NoDate == 0 - 1

\* lines 126-133: one pass over the events, tallying days and tracking min / max
RECURSIVE DailyScan(_, _)
DailyScan(items, acc) ==
    IF items = <<>> THEN acc
    ELSE LET dateObj == setHours0(DateParse(Head(items).receivedAt))
             date == toLocaleDateString(dateObj)
         IN  DailyScan(Tail(items),
                 [dailyActivity |-> DictIncr(acc.dailyActivity, date),
                  minDate |-> IF acc.minDate = NoDate \/ dateObj < acc.minDate
                              THEN dateObj ELSE acc.minDate,
                  maxDate |-> IF acc.maxDate = NoDate \/ dateObj > acc.maxDate
                              THEN dateObj ELSE acc.maxDate])

\* lines 141-145: while (current <= endDate) { ...; current.setDate(+1) }
RECURSIVE FillDates(_, _, _, _)
FillDates(current, endDate, dailyActivity, filled) ==
    IF current <= endDate
    THEN FillDates(addDays(current, 1), endDate, dailyActivity,
                   Append(filled, <<toLocaleDateString(current),
                                    DictGet(dailyActivity, toLocaleDateString(current))>>))
    ELSE filled

\* FilledDailyActivity without line 139: the walk ends at the latest event's day
FilledDailyActivity_EndAtMaxDate(items, clock) ==
    LET scan == DailyScan(items, [dailyActivity |-> <<>>, minDate |-> NoDate,
                                  maxDate |-> NoDate])
    IN  IF scan.minDate # NoDate /\ scan.maxDate # NoDate
        THEN FillDates(scan.minDate, scan.maxDate, scan.dailyActivity, <<>>)
        ELSE <<>>

\* lines 135-146
FilledDailyActivity(items, clock) ==
    LET scan == DailyScan(items, [dailyActivity |-> <<>>, minDate |-> NoDate,
                                  maxDate |-> NoDate])
        today == setHours0(clock)
        endDate == IF scan.maxDate > today THEN scan.maxDate ELSE today
    IN  IF scan.minDate # NoDate /\ scan.maxDate # NoDate
        THEN FillDates(scan.minDate, endDate, scan.dailyActivity, <<>>)
        ELSE <<>>

processData(data, range, repo, clock) ==
    LET filteredData == RepoFilter(data, repo)
        timeFilteredData == TimeFilter(filteredData, range, clock)
        n == Len(timeFilteredData)
        eventTypes == CountInto([k \in 1..n |-> EventLabel(timeFilteredData[k])], <<>>)
        repoActivity == CountInto([k \in 1..n |-> RepoLabel(timeFilteredData[k])], <<>>)
        teamActivity == CountInto([k \in 1..n |-> TeamName(timeFilteredData[k])], <<>>)
        userActivity == CountInto([k \in 1..n |-> UserLabel(timeFilteredData[k])], <<>>)
    IN  [eventTypes |-> eventTypes,
         repoActivity |-> repoActivity,
         teamActivity |-> teamActivity,
         userActivity |-> userActivity,
         dailyActivity |-> FilledDailyActivity(timeFilteredData, clock),
         totalEvents |-> n,
         uniqueRepos |-> Len(Keys(repoActivity)),
         uniqueTeams |-> Len(Keys(teamActivity)),
         filteredData |-> filteredData]

----------------------------------------------------------------------------
(* The render body, lines 62-68 and 168-210, and the table rows, 538-556 *)

\* TodaysEvents comparing the instants instead of the day labels: events dated
\* after today are taken too
TodaysEvents_FromToday(filteredData, clock) ==
    LET IsToday(item) == setHours0(DateParse(item.receivedAt)) >= setHours0(clock)
    IN  SelectSeq(filteredData, IsToday)

\* lines 184-188
TodaysEvents(filteredData, clock) ==
    LET todayStr == toLocaleDateString(setHours0(clock))
        IsToday(item) ==
            toLocaleDateString(setHours0(DateParse(item.receivedAt))) = todayStr
    IN  SelectSeq(filteredData, IsToday)

\* item.repository?.name.slice(5) raises a TypeError when repository is present
\* and its name is undefined: ?. guards repository only
TeamCellThrows(item) == item.repository.has /\ ~item.repository.val.has

\* item.repository?.name.slice(5) || 'Unknown', lines 190 and 547
TeamCell(item) ==
    IF ~item.repository.has THEN Unknown
    ELSE OrElse(SomeStr(StrSlice(item.repository.val.val, 5)), SomeStr(Unknown)).val

\* line 190
TeamsWorkedToday(todaysEvents) ==
    Cardinality({TeamCell(todaysEvents[k]) : k \in 1..Len(todaysEvents)})

\* line 204
TotalPages(filteredData) == CeilDiv(Len(filteredData), rowsPerPage)

\* line 205
PaginatedData(filteredData, page) ==
    ArraySlice(filteredData, (page - 1) * rowsPerPage, page * rowsPerPage)

\* Repositories scanning the repository-filtered list instead of the snapshot
Repositories_Filtered(data) ==
    LET kept == RepoFilter(data, selectedRepo)
        names == [k \in 1..Len(kept) |-> RepoNameOf(kept[k])]
        present == SelectSeq(names, Truthy)
    IN  Dedupe([k \in 1..Len(present) |-> present[k].val], <<>>)

\* line 210
Repositories(data) ==
    LET names == [k \in 1..Len(data) |-> RepoNameOf(data[k])]
        present == SelectSeq(names, Truthy)
    IN  Dedupe([k \in 1..Len(present) |-> present[k].val], <<>>)

\* lines 539-555, the cells of one row
Row(item) ==
    [id |-> item.id,
     repository |-> RepoLabel(item),
     team |-> TeamCell(item),
     username |-> UserLabel(item)]

Spinner == [kind |-> "spinner"]
TypeError == [kind |-> "TypeError"]

\* the component function: what one render returns, or the error it raises
Render(data, isLoading, range, repo, page, clock) ==
    IF isLoading THEN Spinner
    ELSE
    LET bundle == processData(data, range, repo, clock)
        filteredData == bundle.filteredData
        todaysEvents == TodaysEvents(filteredData, clock)
        totalPages == TotalPages(filteredData)
        paginatedData == PaginatedData(filteredData, page)
    IN  IF \/ \E k \in 1..Len(todaysEvents) : TeamCellThrows(todaysEvents[k])
           \/ \E k \in 1..Len(paginatedData) : TeamCellThrows(paginatedData[k])
        THEN TypeError
        ELSE [kind |-> "dashboard",
              eventTypes |-> bundle.eventTypes,
              repoActivity |-> bundle.repoActivity,
              teamActivity |-> bundle.teamActivity,
              userActivity |-> bundle.userActivity,
              dailyActivity |-> bundle.dailyActivity,
              totalEvents |-> bundle.totalEvents,
              uniqueRepos |-> bundle.uniqueRepos,
              uniqueTeams |-> bundle.uniqueTeams,
              filteredData |-> filteredData,
              todaysActivity |-> Len(todaysEvents),
              teamsWorkedToday |-> TeamsWorkedToday(todaysEvents),
              topTeams |-> ArraySlice(SortDesc(bundle.teamActivity), 0, 5),
              topUsers |-> ArraySlice(SortDesc(bundle.userActivity), 0, 5),
              leaderboard |-> SortDesc(bundle.userActivity),
              totalPages |-> totalPages,
              paginatedData |-> paginatedData,
              rows |-> [k \in 1..Len(paginatedData) |-> Row(paginatedData[k])],
              repositories |-> Repositories(data),
              renderedAt |-> clock]

----------------------------------------------------------------------------
(* The component as a state machine *)

TimeRanges == {"24h", "7d", "30d", "all"}

Init ==
    /\ webhookData = <<>>
    /\ loading = TRUE
    /\ timeRange = "7d"
    /\ selectedRepo = AllRepos
    /\ currentPage = 1
    /\ now = Now0
    /\ listening = TRUE
    /\ delivered = <<>>
    /\ view = Render(<<>>, TRUE, "7d", AllRepos, 1, Now0)

\* an uncaught error in render unmounts the component; the effect cleanup
\* (line 59) detaches the listener
Mounted == view.kind # "TypeError"
Shown == view.kind = "dashboard"

\* lines 43-53: the success callback of onSnapshot
onSnapshot(snapshot) ==
    /\ Mounted /\ listening
    /\ delivered' = snapshot
    /\ webhookData' = SnapshotData(snapshot)
    /\ loading' = FALSE
    /\ view' = Render(webhookData', loading', timeRange, selectedRepo, currentPage, now)
    /\ listening' = (view'.kind # "TypeError")
    /\ UNCHANGED <<timeRange, selectedRepo, currentPage, now>>

\* onError resetting the data as well, as a handler that clears stale data would
onError_ClearsData ==
    /\ Mounted /\ listening
    /\ loading' = FALSE
    /\ webhookData' = <<>>
    /\ view' = Render(webhookData', loading', timeRange, selectedRepo, currentPage, now)
    /\ listening' = FALSE
    /\ UNCHANGED <<timeRange, selectedRepo, currentPage, now, delivered>>

\* onError logging the error only, without the setLoading(false) of line 56
onError_KeepsLoading ==
    /\ Mounted /\ listening
    /\ listening' = FALSE
    /\ UNCHANGED <<webhookData, loading, timeRange, selectedRepo, currentPage, view,
                   now, delivered>>

\* lines 54-57: the error callback of onSnapshot; the listener is then dead
onError ==
    /\ Mounted /\ listening
    /\ loading' = FALSE
    /\ view' = IF loading
               THEN Render(webhookData, loading', timeRange, selectedRepo, currentPage, now)
               ELSE view
    /\ listening' = FALSE
    /\ UNCHANGED <<webhookData, timeRange, selectedRepo, currentPage, now, delivered>>

\* lines 303-306: the options of the repository select
RepoOptions ==
    IF Shown
    THEN {AllRepos} \cup {view.repositories[k] : k \in 1..Len(view.repositories)}
    ELSE {}

\* line 291: onChange of the time-range select
setTimeRange(value) ==
    /\ Shown
    /\ value # timeRange
    /\ timeRange' = value
    /\ view' = Render(webhookData, loading, timeRange', selectedRepo, currentPage, now)
    /\ listening' = (listening /\ view'.kind # "TypeError")
    /\ UNCHANGED <<webhookData, loading, selectedRepo, currentPage, now, delivered>>

\* line 301: onChange of the repository select, whose options are lines 303-306
setSelectedRepo(value) ==
    /\ Shown
    /\ value # selectedRepo
    /\ selectedRepo' = value
    /\ view' = Render(webhookData, loading, timeRange, selectedRepo', currentPage, now)
    /\ listening' = (listening /\ view'.kind # "TypeError")
    /\ UNCHANGED <<webhookData, loading, timeRange, currentPage, now, delivered>>

\* line 206, behind the button of lines 561-567
handlePrevPage ==
    /\ Shown
    /\ currentPage # 1
    /\ currentPage' = Max(1, currentPage - 1)
    /\ view' = Render(webhookData, loading, timeRange, selectedRepo, currentPage', now)
    /\ listening' = (listening /\ view'.kind # "TypeError")
    /\ UNCHANGED <<webhookData, loading, timeRange, selectedRepo, now, delivered>>

\* line 207, behind the button of lines 569-575
handleNextPage ==
    /\ Shown
    /\ currentPage # view.totalPages
    /\ currentPage' = Min(view.totalPages, currentPage + 1)
    /\ view' = Render(webhookData, loading, timeRange, selectedRepo, currentPage', now)
    /\ listening' = (listening /\ view'.kind # "TypeError")
    /\ UNCHANGED <<webhookData, loading, timeRange, selectedRepo, now, delivered>>

\* time passes; nothing re-renders
Tick ==
    /\ now < Now0 + MaxTicks
    /\ now' = now + 1
    /\ UNCHANGED <<webhookData, loading, timeRange, selectedRepo, currentPage, view,
                   listening, delivered>>

Next ==
    \/ \E snapshot \in Snapshots : onSnapshot(snapshot)
    \/ onError
    \/ \E value \in TimeRanges : setTimeRange(value)
    \/ \E value \in RepoOptions : setSelectedRepo(value)
    \/ handlePrevPage
    \/ handleNextPage
    \/ Tick

Spec == Init /\ [][Next]_vars

\* lines 39-58: the subscription made at mount answers with a first snapshot
\* (line 43) or with an error (line 54)
FirstCallback ==
    /\ loading
    /\ \/ \E snapshot \in Snapshots : onSnapshot(snapshot)
       \/ onError

\* the program with the subscription's first answer eventually delivered
LiveSpec == Spec /\ WF_vars(FirstCallback)

----------------------------------------------------------------------------
(* Vocabulary of the claims, stated on the stored records directly *)

\* the event passes the repository filter of the selector
PassesRepo(item, repo) ==
    \/ repo = AllRepos
    \/ item.repository.has /\ item.repository.val.has /\ item.repository.val.val = repo

\* the instant `days` days before `clock`
DaysAgo(clock, days) == clock - days * DayTicks

\* the cutoff the selected time range stands for
RangeCutoff(range, clock) ==
    CASE range = "24h" -> DaysAgo(clock, 1)
      [] range = "7d"  -> DaysAgo(clock, 7)
      [] range = "30d" -> DaysAgo(clock, 30)
      [] OTHER         -> 0

InstantOf(item) == item.receivedAt.date * DayTicks + item.receivedAt.time

\* positions in webhookData of the events that pass the repository filter
RepoPassing == {k \in 1..Len(webhookData) : PassesRepo(webhookData[k], selectedRepo)}

\* positions of the events that pass both filters, as of the clock reading `clock`
BothPassing(range, clock) ==
    {k \in RepoPassing : InstantOf(webhookData[k]) >= RangeCutoff(range, clock)}

SetMin(S) == CHOOSE x \in S : \A y \in S : x <= y
SetMax(S) == CHOOSE x \in S : \A y \in S : x >= y

----------------------------------------------------------------------------
(* Pagination *)

\* C1: while events exist and the page index is at least 1, currentPage never
\* exceeds totalPages and the displayed page slice is not empty.
C1_PageNeverExceedsTotal ==
    (Shown /\ Len(view.filteredData) > 0 /\ currentPage >= 1)
        => (currentPage <= view.totalPages /\ view.paginatedData # <<>>)

\* C2: every Prev or Next request leaves currentPage at 1 or above, and at most
\* totalPages whenever there is at least one page.
C2_PrevNextStayInRange ==
    [][((handlePrevPage \/ handleNextPage) /\ view'.kind = "dashboard")
          => (currentPage' >= 1
              /\ (view'.totalPages >= 1 => currentPage' <= view'.totalPages))]_vars

\* C3: totalPages is ceil(L / 10) for L the length of the paginated list, and the
\* page slice has length min(10, L - (currentPage - 1) * 10), never negative.
C3_PaginationBounds ==
    Shown =>
        LET L == Len(view.filteredData)
        IN  /\ view.totalPages * rowsPerPage >= L
            /\ (view.totalPages - 1) * rowsPerPage < L
            /\ (L = 0 => view.totalPages = 0)
            /\ Len(view.paginatedData) = Min(rowsPerPage, L - (currentPage - 1) * rowsPerPage)
            /\ Min(rowsPerPage, L - (currentPage - 1) * rowsPerPage) >= 0

----------------------------------------------------------------------------
(* The aggregation bundle *)

\* C4: the eventTypes counts and the repoActivity counts both sum to the length of
\* the filteredData list the bundle returns.
C4_CountConservation ==
    Shown =>
        /\ SumValues(view.eventTypes) = SumValues(view.repoActivity)
        /\ SumValues(view.eventTypes) = Len(view.filteredData)

\* C5: the filteredData list handed to pagination holds exactly the events that
\* pass the repository filter and the time filter, in snapshot order, so its
\* length is totalEvents and no event on it is older than the cutoff.
C5_FilteredDataIsBothFilters ==
    Shown =>
        LET keep == BothPassing(timeRange, view.renderedAt)
            Keep(item) == \E k \in keep : webhookData[k].id = item.id
        IN  /\ view.filteredData = SelectSeq(webhookData, Keep)
            /\ Len(view.filteredData) = view.totalEvents
            /\ \A j \in 1..Len(view.filteredData) :
                   InstantOf(view.filteredData[j]) >= RangeCutoff(timeRange, view.renderedAt)

\* C6: when some event passes both filters, the keys of dailyActivity are the
\* consecutive days from the earliest such event's day to the later of the latest
\* such event's day and today, ascending, each with the number of such events on
\* that day (0 when none), and the counts sum to the number of such events.
C6_DailySeriesComplete ==
    Shown =>
        LET keep == BothPassing(timeRange, view.renderedAt)
            days == {webhookData[k].receivedAt.date : k \in keep}
            today == view.renderedAt \div DayTicks
            first == SetMin(days)
            last == Max(SetMax(days), today)
            series == view.dailyActivity
        IN  IF keep = {} THEN series = <<>>
            ELSE /\ Len(series) = last - first + 1
                 /\ \A j \in 1..Len(series) :
                        /\ series[j][1] = first + j - 1
                        /\ series[j][2] =
                             Cardinality({k \in keep : webhookData[k].receivedAt.date = series[j][1]})
                 /\ SumValues(series) = Cardinality(keep)

\* C6 witness: a series that starts before today, has a day without events, and
\* ends on today although the latest event is older.
C6_Witness ==
    /\ Shown /\ view.totalEvents > 1
    /\ \E j \in 1..Len(view.dailyActivity) : view.dailyActivity[j][2] = 0
    /\ view.dailyActivity[Len(view.dailyActivity)] = <<view.renderedAt \div DayTicks, 0>>

\* C7: no record with a missing optional field makes the render raise an error.
C7_RenderNeverRaises == view.kind # "TypeError"

\* C8: an event of repository "teamA-svc" is counted under team "svc", and an
\* event without a repository name under repository "Unknown" and team "Unknown".
C8_TeamLabels ==
    Shown =>
        \A k \in BothPassing(timeRange, view.renderedAt) :
            LET repo == webhookData[k].repository
            IN  /\ (repo.has /\ repo.val.has /\ repo.val.val = TeamASvc)
                      => DictGet(view.teamActivity, <<"s","v","c">>) >= 1
                /\ ~(repo.has /\ repo.val.has)
                      => /\ DictGet(view.repoActivity, Unknown) >= 1
                         /\ DictGet(view.teamActivity, Unknown) >= 1

\* C9: the Today summary is the same under every time range, and todaysActivity
\* is the number of events passing the repository filter whose day is today.
C9_TodayIndependentOfTimeRange ==
    Shown =>
        /\ \A range \in TimeRanges :
              LET other == Render(webhookData, loading, range, selectedRepo, currentPage,
                                  view.renderedAt)
              IN  /\ other.kind = "dashboard"
                  /\ other.todaysActivity = view.todaysActivity
                  /\ other.teamsWorkedToday = view.teamsWorkedToday
        /\ view.todaysActivity =
              Cardinality({k \in RepoPassing :
                  webhookData[k].receivedAt.date = view.renderedAt \div DayTicks})

\* C9 witness: a time range narrower than the default is selected, events of
\* repositories other than the selected one exist, and an event of today is
\* counted while an older event is cut off by the time range.
C9_Witness ==
    /\ Shown /\ timeRange = "24h" /\ selectedRepo # AllRepos
    /\ view.todaysActivity >= 1
    /\ view.totalEvents < Len(view.filteredData)

----------------------------------------------------------------------------
(* The subscription *)

\* C10: webhookData is the most recently delivered snapshot and nothing else,
\* document for document, and the displayed views are the ones computed from it
\* and the current filters and page.
C10_LatestSnapshotOnly ==
    /\ Len(webhookData) = Len(delivered)
    /\ \A k \in 1..Len(delivered) :
          /\ webhookData[k].id = delivered[k].id
          /\ webhookData[k].receivedAt = delivered[k].data.receivedAt
          /\ webhookData[k].githubEvent = delivered[k].data.githubEvent
          /\ webhookData[k].repository = delivered[k].data.repository
          /\ webhookData[k].sender = delivered[k].data.sender
          /\ webhookData[k].pusher = delivered[k].data.pusher
          /\ webhookData[k].pull_request = delivered[k].data.pull_request
    /\ Shown => view = Render(SnapshotData(delivered), FALSE, timeRange, selectedRepo,
                              currentPage, view.renderedAt)

\* C10 witness: page 2 is selected, which takes a snapshot of more than ten
\* events, and a later, shorter snapshot has replaced it.
C10_Witness ==
    /\ Shown /\ currentPage = 2
    /\ Len(delivered) > 0 /\ Len(delivered) <= rowsPerPage

\* C11: the error callback leaves webhookData, the filters and currentPage as
\* they were, and what is displayed after it is the render of that unchanged
\* snapshot: the last one delivered, or the empty one when none was.
C11_ErrorKeepsSnapshot ==
    [][onError =>
          /\ webhookData' = webhookData
          /\ webhookData' = SnapshotData(delivered)
          /\ timeRange' = timeRange
          /\ selectedRepo' = selectedRepo
          /\ currentPage' = currentPage
          /\ view'.kind # "spinner"
          /\ view'.kind = "dashboard" =>
                view' = Render(webhookData, FALSE, timeRange, selectedRepo, currentPage,
                               view'.renderedAt)]_vars

\* C11 witness: the listener has failed after a snapshot was delivered, and the
\* dashboard still shows that snapshot's events.
C11_Witness ==
    /\ Shown /\ ~listening
    /\ webhookData # <<>> /\ view.totalEvents > 0

----------------------------------------------------------------------------
(* Rankings *)

\* the counts of a ranking are Numbers and never increase along it
NonIncreasing(ranking) ==
    \A j \in 1..(Len(ranking) - 1) :
        /\ IsNumber(ranking[j][2]) /\ IsNumber(ranking[j + 1][2])
        /\ ranking[j][2] >= ranking[j + 1][2]

\* ranking holds every entry of mapping, each once
RanksAll(ranking, mapping) ==
    /\ Len(ranking) = Len(mapping)
    /\ \A j \in 1..Len(mapping) : \E i \in 1..Len(ranking) : ranking[i] = mapping[j]

\* C12: leaderboard holds every entry of userActivity, sorted non-increasing by
\* count, and topUsers is its prefix of length min(5, number of users); topTeams
\* is likewise the first min(5, number of teams) entries of teamActivity in
\* non-increasing order of count, no entry left out having a larger count.
C12_TopFiveIsPrefixOfRanking ==
    Shown =>
        /\ RanksAll(view.leaderboard, view.userActivity)
        /\ NonIncreasing(view.leaderboard)
        /\ Len(view.topUsers) = Min(5, Len(view.userActivity))
        /\ view.topUsers = SubSeq(view.leaderboard, 1, Len(view.topUsers))
        /\ Len(view.topTeams) = Min(5, Len(view.teamActivity))
        /\ NonIncreasing(view.topTeams)
        /\ \A i \in 1..Len(view.topTeams) :
              /\ \E j \in 1..Len(view.teamActivity) : view.teamActivity[j] = view.topTeams[i]
              /\ \A h \in 1..Len(view.topTeams) :
                    view.topTeams[h][1] = view.topTeams[i][1] => h = i
        /\ \A j \in 1..Len(view.teamActivity) :
              \/ \E i \in 1..Len(view.topTeams) : view.topTeams[i] = view.teamActivity[j]
              \/ \A i \in 1..Len(view.topTeams) :
                    view.topTeams[i][2] >= view.teamActivity[j][2]

\* a string field that is present and not empty
Present(o) == o.has /\ o.val # <<>>

\* the actor of an event: the first present of sender login, pusher name and
\* pull-request author login, and "Unknown" when none is
ActorOf(item) ==
    IF item.sender.has /\ Present(item.sender.val) THEN item.sender.val.val
    ELSE IF item.pusher.has /\ Present(item.pusher.val) THEN item.pusher.val.val
    ELSE IF item.pull_request.has /\ item.pull_request.val.has
            /\ Present(item.pull_request.val.val)
         THEN item.pull_request.val.val.val
    ELSE Unknown

\* C13: each distinct actor among the events passing both filters has exactly one
\* leaderboard row, whose count is the number of those events by that actor, and
\* the leaderboard has no other row.
C13_LeaderboardCountsActors ==
    Shown =>
        LET keep == BothPassing(timeRange, view.renderedAt)
            actors == {ActorOf(webhookData[k]) : k \in keep}
        IN  /\ Len(view.leaderboard) = Cardinality(actors)
            /\ \A a \in actors :
                  \E i \in 1..Len(view.leaderboard) :
                      /\ view.leaderboard[i][1] = a
                      /\ view.leaderboard[i][2] =
                            Cardinality({k \in keep : ActorOf(webhookData[k]) = a})

----------------------------------------------------------------------------
(* The repository selector *)

\* position in webhookData of the first event of repository `name`
FirstSeen(name) ==
    SetMin({k \in 1..Len(webhookData) :
               /\ webhookData[k].repository.has
               /\ webhookData[k].repository.val = SomeStr(name)})

\* C14: the repository list holds each repository name of the whole snapshot
\* exactly once, in order of first occurrence, and nothing else; it therefore
\* depends on neither filter nor on the page.
C14_RepositoriesFromSnapshot ==
    Shown =>
        LET names == {webhookData[k].repository.val.val :
                         k \in {h \in 1..Len(webhookData) :
                                   /\ webhookData[h].repository.has
                                   /\ Present(webhookData[h].repository.val)}}
            list == view.repositories
        IN  /\ Len(list) = Cardinality(names)
            /\ \A j \in 1..Len(list) : list[j] \in names
            /\ \A i, j \in 1..Len(list) :
                  i < j => FirstSeen(list[i]) < FirstSeen(list[j])

\* C14 witness: a repository is selected and a narrow time range hides events, the
\* snapshot has events without a repository name and a name that occurs twice,
\* and the list still offers three names.
C14_Witness ==
    /\ Shown /\ selectedRepo # AllRepos /\ timeRange = "24h"
    /\ Len(view.repositories) = 3
    /\ Len(webhookData) > 4
    /\ \E k \in 1..Len(webhookData) : ~webhookData[k].repository.has
    /\ view.totalEvents < Len(view.filteredData)

----------------------------------------------------------------------------
(* Teams worked today *)

\* the events the Today stage of the shown dashboard selected
ShownTodaysEvents == TodaysEvents(view.filteredData, view.renderedAt)

\* C15: the Today stage derives team labels as teamActivity does: the events of
\* today give as many distinct Today labels as distinct teamActivity keys, and
\* when every repository-filtered event is dated today and passes the time
\* filter, teamsWorkedToday equals uniqueTeams.
C15_TodayTeamsMatchTeamActivity ==
    Shown =>
        /\ view.teamsWorkedToday =
               Cardinality({TeamName(ShownTodaysEvents[k]) :
                               k \in 1..Len(ShownTodaysEvents)})
        /\ (/\ view.todaysActivity = Len(view.filteredData)
            /\ view.totalEvents = Len(view.filteredData))
           => view.teamsWorkedToday = view.uniqueTeams

----------------------------------------------------------------------------
(* Loading lifecycle *)

\* a subscription callback of either kind runs
Callback == onError \/ \E snapshot \in Snapshots : onSnapshot(snapshot)

\* C16: while loading is true the spinner is all that is shown and nothing has
\* been stored; loading stays true until a subscription callback runs; a callback
\* of either kind leaves it false; once false it is never true again, whatever
\* the event; and with the first callback delivered, loading eventually is false.
C16_LoadingLifecycle ==
    /\ [](loading => view.kind = "spinner" /\ webhookData = <<>> /\ currentPage = 1)
    /\ [](~loading => view.kind # "spinner")
    /\ [][loading /\ ~loading' => Callback]_vars
    /\ [][Callback => ~loading']_vars
    /\ [][~loading => ~loading']_vars
    /\ <>(~loading)

\* C16 witness: the first callback was an error: loading is over, the dashboard
\* of the empty data is shown, and filter changes went through since.
C16_Witness ==
    /\ ~loading /\ Shown /\ ~listening
    /\ webhookData = <<>> /\ view.totalEvents = 0
    /\ timeRange # "7d"

====
